---- MODULE Spec2Model ----
(***************************************************************************)
(* Model of src/offset/local/windows.rs: the Windows backend of chrono's   *)
(* Local time zone.  64-bit quantities (i64 seconds, u64 tick counts,      *)
(* FILETIME halves) are kept exactly, as little-endian sequences of        *)
(* hexadecimal digits, because they exceed the range of TLC's integers.    *)
(***************************************************************************)
EXTENDS Integers, Sequences, FiniteSets, TLC

(***************************************************************************)
(* Natural numbers of any size: little-endian sequences of hex digits      *)
(* without leading (most significant) zeros; <<>> is zero.                 *)
(***************************************************************************)
\* F of a value named once: `let x = v; F(x)`
With(v, F(_)) == F(v)

RECURSIVE NatNorm(_)
NatNorm(a) ==
    IF a = <<>> THEN <<>>
    ELSE IF a[Len(a)] = 0 THEN NatNorm(SubSeq(a, 1, Len(a) - 1))
    ELSE a

NatRest(a) == IF a = <<>> THEN <<>> ELSE Tail(a)

NatLow(a) == IF a = <<>> THEN 0 ELSE Head(a)

RECURSIVE NatAddC(_, _, _)
NatAddC(a, b, c) ==
    IF a = <<>> /\ b = <<>>
    THEN (IF c = 0 THEN <<>> ELSE <<c>>)
    ELSE With(NatLow(a) + NatLow(b) + c, LAMBDA s :
         <<s % 16>> \o NatAddC(NatRest(a), NatRest(b), s \div 16))

NatAdd(a, b) == NatAddC(a, b, 0)

\* a - b for a >= b, digit by digit with a borrow
RECURSIVE NatSubB(_, _, _)
NatSubB(a, b, br) ==
    IF a = <<>> THEN <<>>
    ELSE With(NatLow(a) - NatLow(b) - br, LAMBDA s :
         <<s % 16>> \o NatSubB(NatRest(a), NatRest(b), IF s < 0 THEN 1 ELSE 0))

NatSub(a, b) == NatNorm(NatSubB(a, b, 0))

\* comparison of two normalised naturals: -1, 0 or 1
RECURSIVE NatCmpFrom(_, _, _)
NatCmpFrom(a, b, i) ==
    IF i = 0 THEN 0
    ELSE IF a[i] < b[i] THEN -1
    ELSE IF a[i] > b[i] THEN 1
    ELSE NatCmpFrom(a, b, i - 1)

NatCmp(a, b) ==
    IF Len(a) < Len(b) THEN -1
    ELSE IF Len(a) > Len(b) THEN 1
    ELSE NatCmpFrom(a, b, Len(a))

\* a * k for a machine-sized k (0 <= k < 2^27)
RECURSIVE NatMulC(_, _, _)
NatMulC(a, k, c) ==
    IF a = <<>>
    THEN (IF c = 0 THEN <<>> ELSE <<c % 16>> \o NatMulC(<<>>, k, c \div 16))
    ELSE With(Head(a) * k + c, LAMBDA s :
         <<s % 16>> \o NatMulC(Tail(a), k, s \div 16))

NatMulSmall(a, k) == NatNorm(NatMulC(a, k, 0))

\* quotient and remainder of a by a machine-sized k (0 < k < 2^27),
\* schoolbook division from the most significant digit down; NatDivR gives
\* the remainder followed by the digits of the quotient
RECURSIVE NatDivR(_, _, _, _)
NatDivR(a, k, i, r) ==
    IF i = 0 THEN <<r>>
    ELSE With(r * 16 + a[i], LAMBDA cur :
         NatDivR(a, k, i - 1, cur % k) \o <<cur \div k>>)

NatDivMod(a, k) ==
    With(NatDivR(a, k, Len(a), 0), LAMBDA d : [q |-> NatNorm(Tail(d)), r |-> Head(d)])

RECURSIVE NatFromInt(_)
NatFromInt(n) == IF n = 0 THEN <<>> ELSE <<n % 16>> \o NatFromInt(n \div 16)

\* value of a natural known to fit a machine integer
RECURSIVE NatToInt(_)
NatToInt(a) == IF a = <<>> THEN 0 ELSE Head(a) + 16 * NatToInt(Tail(a))

\* the natural written in decimal, three digits per element, most significant first
RECURSIVE DecNat(_)
DecNat(groups) ==
    IF groups = <<>> THEN <<>>
    ELSE NatAdd(NatMulSmall(DecNat(SubSeq(groups, 1, Len(groups) - 1)), 1000),
                NatFromInt(groups[Len(groups)]))

\* a padded with zeros, or cut, to exactly n digits: a mod 16^n
NatFix(a, n) == [i \in 1..n |-> IF i <= Len(a) THEN a[i] ELSE 0]

Pow2_63 == NatFix(<<>>, 15) \o <<8>>

Pow2_64 == NatFix(<<>>, 16) \o <<1>>

Pow2_31 == NatFix(<<>>, 7) \o <<8>>

Pow2_32 == NatFix(<<>>, 8) \o <<1>>

(***************************************************************************)
(* Integers of any size: sign and magnitude.                               *)
(***************************************************************************)
Big(neg, mag) == [neg |-> neg /\ mag # <<>>, mag |-> mag]

BigOfInt(n) == IF n < 0 THEN Big(TRUE, NatFromInt(-n)) ELSE Big(FALSE, NatFromInt(n))

BigToInt(x) == IF x.neg THEN -NatToInt(x.mag) ELSE NatToInt(x.mag)

BigNeg(x) == Big(~x.neg, x.mag)

BigAdd(x, y) ==
    IF x.neg = y.neg THEN Big(x.neg, NatAdd(x.mag, y.mag))
    ELSE IF NatCmp(x.mag, y.mag) >= 0 THEN Big(x.neg, NatSub(x.mag, y.mag))
    ELSE Big(y.neg, NatSub(y.mag, x.mag))

BigSub(x, y) == BigAdd(x, BigNeg(y))

BigMulSmall(x, k) == Big(x.neg, NatMulSmall(x.mag, k))

\* Rust's integer division: the quotient is truncated towards zero
BigDivSmall(x, k) == Big(x.neg, NatDivMod(x.mag, k).q)

BigLe(x, y) == ~BigSub(y, x).neg

\* does x lie in the range of i64 / of i32
FitsI64(x) ==
    IF x.neg THEN NatCmp(x.mag, Pow2_63) <= 0 ELSE NatCmp(x.mag, Pow2_63) < 0

FitsI32(x) ==
    IF x.neg THEN NatCmp(x.mag, Pow2_31) <= 0 ELSE NatCmp(x.mag, Pow2_31) < 0

\* the 16 hex digits of x modulo 2^64 (the two's complement bit pattern)
Bits64(x) ==
    With(NatNorm(NatFix(x.mag, 16)), LAMBDA m :
    IF x.neg /\ m # <<>> THEN NatFix(NatSub(Pow2_64, m), 16) ELSE NatFix(m, 16))

\* the i64 a 64-bit pattern stands for
I64OfBits(bits) ==
    IF bits[16] >= 8 THEN Big(TRUE, NatSub(Pow2_64, NatNorm(bits)))
    ELSE Big(FALSE, NatNorm(bits))

\* wrapping of a mathematical result to i64, as release builds compute it
WrapI64(x) == I64OfBits(Bits64(x))

\* `as i32` of an i64: the low 32 bits, read as two's complement
AsI32(x) ==
    With(NatFix(Bits64(x), 8), LAMBDA lo :
    IF lo[8] >= 8 THEN NatToInt(NatSub(NatNorm(lo), Pow2_31)) - 2147483647 - 1
    ELSE NatToInt(NatNorm(lo)))

(***************************************************************************)
(* The epoch bridge: Unix seconds <-> FILETIME (100ns ticks since 1601).   *)
(* A FILETIME is its two 32-bit halves, eight hex digits each.             *)
(***************************************************************************)
HECTONANOSECS_IN_SEC == 10000000

HECTONANOSEC_TO_UNIX_EPOCH ==
    BigMulSmall(Big(FALSE, DecNat(<<11, 644, 473, 600>>)), HECTONANOSECS_IN_SEC)

\* `let mut ft = mem::zeroed()`
ZeroFileTime == [dwLowDateTime |-> NatFix(<<>>, 8), dwHighDateTime |-> NatFix(<<>>, 8)]

\* does the i64 arithmetic of time_to_file_time overflow (a panic in a build
\* with overflow checks, a wrap-around otherwise)
time_to_file_time_overflows(sec) ==
    With(BigMulSmall(sec, HECTONANOSECS_IN_SEC), LAMBDA prod :
    \/ ~FitsI64(prod)
    \/ ~FitsI64(BigAdd(WrapI64(prod), HECTONANOSEC_TO_UNIX_EPOCH)))

\* a variant that forgets the shift: both halves get the low 32 bits
time_to_file_time_lowonly(sec) ==
    With(Bits64(WrapI64(BigAdd(WrapI64(BigMulSmall(sec, HECTONANOSECS_IN_SEC)),
                               HECTONANOSEC_TO_UNIX_EPOCH))), LAMBDA t :
    [dwLowDateTime |-> SubSeq(t, 1, 8), dwHighDateTime |-> SubSeq(t, 1, 8)])

time_to_file_time(sec) ==
    With(Bits64(WrapI64(BigAdd(WrapI64(BigMulSmall(sec, HECTONANOSECS_IN_SEC)),
                               HECTONANOSEC_TO_UNIX_EPOCH))), LAMBDA t :
    [dwLowDateTime |-> SubSeq(t, 1, 8), dwHighDateTime |-> SubSeq(t, 9, 16)])

file_time_as_u64(ft) == ft.dwLowDateTime \o ft.dwHighDateTime

file_time_to_unix_seconds_overflows(ft) ==
    ~FitsI64(BigSub(I64OfBits(file_time_as_u64(ft)), HECTONANOSEC_TO_UNIX_EPOCH))

file_time_to_unix_seconds(ft) ==
    BigDivSmall(WrapI64(BigSub(I64OfBits(file_time_as_u64(ft)), HECTONANOSEC_TO_UNIX_EPOCH)),
                HECTONANOSECS_IN_SEC)

(***************************************************************************)
(* Calendar arithmetic shared by the host and by the library's date type:  *)
(* the proleptic Gregorian calendar, days counted from 1970-01-01.         *)
(***************************************************************************)
IsLeapYear(y) == (y % 4 = 0 /\ y % 100 # 0) \/ y % 400 = 0

DaysInMonth(y, m) ==
    IF m = 2 THEN (IF IsLeapYear(y) THEN 29 ELSE 28)
    ELSE IF m \in {4, 6, 9, 11} THEN 30 ELSE 31

ValidYmd(y, m, d) == m >= 1 /\ m <= 12 /\ d >= 1 /\ d <= DaysInMonth(y, m)

DaysFromCivil(y, m, d) ==
    With(IF m <= 2 THEN y - 1 ELSE y, LAMBDA yy :
    With(yy \div 400, LAMBDA era :
    With(yy - era * 400, LAMBDA yoe :
    With((153 * (IF m > 2 THEN m - 3 ELSE m + 9) + 2) \div 5 + d - 1, LAMBDA doy :
    era * 146097 + (yoe * 365 + yoe \div 4 - yoe \div 100 + doy) - 719468))))

CivilFromDays(z) ==
    With((z + 719468) \div 146097, LAMBDA era :
    With(z + 719468 - era * 146097, LAMBDA doe :
    With((doe - doe \div 1460 + doe \div 36524 - doe \div 146096) \div 365, LAMBDA yoe :
    With(doe - (365 * yoe + yoe \div 4 - yoe \div 100), LAMBDA doy :
    With((5 * doy + 2) \div 153, LAMBDA mp :
    With(IF mp < 10 THEN mp + 3 ELSE mp - 9, LAMBDA m :
    [year  |-> yoe + era * 400 + (IF m <= 2 THEN 1 ELSE 0),
     month |-> m,
     day   |-> doy - (153 * mp + 2) \div 5 + 1]))))))

\* 0 = Sunday; 1970-01-01 was a Thursday
WeekdayOfDays(z) == (z + 4) % 7

(***************************************************************************)
(* The host (Win32 time services).  Inside the host a moment is a day      *)
(* number and a second of the day; towards the program it is a SYSTEMTIME  *)
(* or a FILETIME.                                                          *)
(***************************************************************************)
Lin(day, sod) == [day |-> day + sod \div 86400, sod |-> sod % 86400]

LinAdd(l, secs) == Lin(l.day, l.sod + secs)

LinLess(a, b) == a.day < b.day \/ (a.day = b.day /\ a.sod < b.sod)

SysTime(y, mo, d, h, mi, s) ==
    [wYear |-> y, wMonth |-> mo, wDayOfWeek |-> 0, wDay |-> d,
     wHour |-> h, wMinute |-> mi, wSecond |-> s, wMilliseconds |-> 0]

\* `mem::zeroed()` for a SYSTEMTIME
ZeroSystemTime == SysTime(0, 0, 0, 0, 0, 0)

\* what the host accepts as a SYSTEMTIME: years 1601 to 30827, a real date and time
SysTimeValid(st) ==
    /\ st.wYear >= 1601 /\ st.wYear <= 30827
    /\ ValidYmd(st.wYear, st.wMonth, st.wDay)
    /\ st.wHour <= 23 /\ st.wMinute <= 59 /\ st.wSecond <= 59
    /\ st.wMilliseconds <= 999

SysToLin(st) ==
    Lin(DaysFromCivil(st.wYear, st.wMonth, st.wDay),
        st.wHour * 3600 + st.wMinute * 60 + st.wSecond)

LinToSys(l) ==
    With(CivilFromDays(l.day), LAMBDA c :
    [wYear |-> c.year, wMonth |-> c.month, wDayOfWeek |-> WeekdayOfDays(l.day),
     wDay |-> c.day, wHour |-> l.sod \div 3600, wMinute |-> (l.sod \div 60) % 60,
     wSecond |-> l.sod % 60, wMilliseconds |-> 0])

\* days from 1601-01-01 to 1970-01-01
DaysToUnixEpoch == DaysFromCivil(1970, 1, 1) - DaysFromCivil(1601, 1, 1)

\* FileTimeToSystemTime: [ok, st]; fails for a tick count of 2^63 or more and
\* for a moment after the year 30827
HostFileTimeToSystemTime(ft) ==
    With(NatNorm(ft.dwLowDateTime \o ft.dwHighDateTime), LAMBDA ticks :
    With(NatDivMod(ticks, HECTONANOSECS_IN_SEC), LAMBDA secs :
    With(NatDivMod(secs.q, 86400), LAMBDA days :
    IF NatCmp(ticks, Pow2_63) >= 0 THEN [ok |-> FALSE, st |-> ZeroSystemTime]
    ELSE With(LinToSys(Lin(NatToInt(days.q) - DaysToUnixEpoch, days.r)), LAMBDA st :
         IF st.wYear > 30827 THEN [ok |-> FALSE, st |-> ZeroSystemTime]
         ELSE [ok |-> TRUE, st |-> [st EXCEPT !.wMilliseconds = secs.r \div 10000]]))))

\* SystemTimeToFileTime: [ok, ft]; the output is left as it was on failure
HostSystemTimeToFileTime(st, ft0) ==
    IF ~SysTimeValid(st) THEN [ok |-> FALSE, ft |-> ft0]
    ELSE With(SysToLin(st), LAMBDA l :
         With(NatAdd(NatMulSmall(NatFromInt(l.day + DaysToUnixEpoch), 86400),
                     NatFromInt(l.sod)), LAMBDA secs :
         With(NatFix(NatAdd(NatMulSmall(secs, HECTONANOSECS_IN_SEC),
                            NatFromInt(st.wMilliseconds * 10000)), 16), LAMBDA bits :
         [ok |-> TRUE,
          ft |-> [dwLowDateTime |-> SubSeq(bits, 1, 8),
                  dwHighDateTime |-> SubSeq(bits, 9, 16)]])))

(***************************************************************************)
(* The host's zone state, a TIME_ZONE_INFORMATION: biases in minutes (UTC  *)
(* = local + bias) and the two yearly transition rules (month, week of the *)
(* month with 5 = last, day of the week, hour); month 0 = no daylight time.*)
(***************************************************************************)
TzRule(mo, week, dow, h) == [wMonth |-> mo, wDay |-> week, wDayOfWeek |-> dow, wHour |-> h]

NoRule == TzRule(0, 0, 0, 0)

TzInfo(bias, dbias, srule, drule) ==
    [Bias |-> bias, StandardBias |-> 0, DaylightBias |-> dbias,
     StandardDate |-> srule, DaylightDate |-> drule]

\* `let mut tz = mem::zeroed()`
ZeroTzInfo == TzInfo(0, 0, NoRule, NoRule)

Zones ==
    [utc     |-> TzInfo(0, 0, NoRule, NoRule),
     bogota  |-> TzInfo(300, 0, NoRule, NoRule),
     eastern |-> TzInfo(300, -60, TzRule(11, 1, 0, 2), TzRule(3, 2, 0, 2)),
     berlin  |-> TzInfo(-60, -60, TzRule(10, 5, 0, 3), TzRule(3, 5, 0, 2)),
     kolkata |-> TzInfo(-330, 0, NoRule, NoRule)]

ZoneNames == DOMAIN Zones

StdOffset(tz) == -60 * (tz.Bias + tz.StandardBias)

DstOffset(tz) == -60 * (tz.Bias + tz.DaylightBias)

\* the wall-clock moment a transition rule names in a year
TransitionLin(year, rule) ==
    With(DaysFromCivil(year, rule.wMonth, 1), LAMBDA first :
    With(1 + ((rule.wDayOfWeek - WeekdayOfDays(first)) % 7) + 7 * (rule.wDay - 1), LAMBDA dayN :
    Lin(first + (IF dayN > DaysInMonth(year, rule.wMonth) THEN dayN - 7 ELSE dayN) - 1,
        rule.wHour * 3600)))

\* is daylight time in effect at a UTC moment
InDaylight(tz, utc) ==
    /\ tz.DaylightDate.wMonth # 0
    /\ With(CivilFromDays(utc.day).year, LAMBDA year :
          /\ ~LinLess(utc, LinAdd(TransitionLin(year, tz.DaylightDate), -StdOffset(tz)))
          /\ LinLess(utc, LinAdd(TransitionLin(year, tz.StandardDate), -DstOffset(tz))))

\* seconds east of UTC at a UTC moment
OffsetAt(tz, utc) == IF InDaylight(tz, utc) THEN DstOffset(tz) ELSE StdOffset(tz)

\* SystemTimeToTzSpecificLocalTime(NULL, utc, local): [ok, st]
HostSystemTimeToTzSpecificLocalTime(tz, utc) ==
    IF ~SysTimeValid(utc) THEN [ok |-> FALSE, st |-> ZeroSystemTime]
    ELSE With(SysToLin(utc), LAMBDA u :
         [ok |-> TRUE, st |-> LinToSys(LinAdd(u, OffsetAt(tz, u)))])

\* the offsets under which a wall-clock reading is a real local time: one for
\* an ordinary reading, two in the repeated hour, none in the skipped hour
MatchingOffsets(tz, local) ==
    {o \in {StdOffset(tz), DstOffset(tz)} : OffsetAt(tz, LinAdd(local, -o)) = o}

\* TzSpecificLocalTimeToSystemTime(NULL, local, utc): [ok, st].  For a reading
\* that is repeated or skipped the host takes the standard or the daylight
\* offset; which one is the host's business (pick)
HostTzSpecificLocalTimeToSystemTime(tz, local, pick) ==
    IF ~SysTimeValid(local) THEN [ok |-> FALSE, st |-> ZeroSystemTime]
    ELSE With(SysToLin(local), LAMBDA l :
         With(MatchingOffsets(tz, l), LAMBDA matches :
         With(IF Cardinality(matches) = 1 THEN CHOOSE x \in matches : TRUE
              ELSE IF pick = "daylight" THEN DstOffset(tz) ELSE StdOffset(tz), LAMBDA o :
         [ok |-> TRUE, st |-> LinToSys(LinAdd(l, -o))])))

\* the host calls the program makes, by the place that makes them
HostCalls ==
    {"FileTimeToSystemTime", "SystemTimeToTzSpecificLocalTime",
     "system_time_to_file_time", "GetTimeZoneInformation",
     "utc_tm_to_time", "TzSpecificLocalTimeToSystemTime", "local_tm_to_time"}

(***************************************************************************)
(* The broken-down time and the conversions of windows.rs.                 *)
(***************************************************************************)
MkTm(sec, min, hour, mday, mon, year, wday, yd, isdst, utcoff, nsec) ==
    [tm_sec |-> sec, tm_min |-> min, tm_hour |-> hour, tm_mday |-> mday,
     tm_mon |-> mon, tm_year |-> year, tm_wday |-> wday, tm_yday |-> yd,
     tm_isdst |-> isdst, tm_utcoff |-> utcoff, tm_nsec |-> nsec]

ZeroTm == MkTm(0, 0, 0, 0, 0, 0, 0, 0, 0, 0, 0)

\* `as u16` of a small signed value
AsU16(x) == x % 65536

tm_to_system_time(tm) ==
    [wYear |-> AsU16(tm.tm_year + 1900), wMonth |-> AsU16(tm.tm_mon + 1),
     wDayOfWeek |-> AsU16(tm.tm_wday), wDay |-> AsU16(tm.tm_mday),
     wHour |-> AsU16(tm.tm_hour), wMinute |-> AsU16(tm.tm_min),
     wSecond |-> AsU16(tm.tm_sec), wMilliseconds |-> 0]

yday(year, month, day) ==
    LET leap == IF month > 2 THEN (IF year % 4 = 0 THEN 1 ELSE 2) ELSE 0
        july == IF month > 7 THEN 1 ELSE 0
    IN  (month - 1) * 30 + month \div 2 + (day - 1) - leap + july

\* the u16 subtractions of system_time_to_tm underflow for month 0 and for a
\* year before 1900
system_time_to_tm_overflows(sys) == sys.wMonth < 1 \/ sys.wYear < 1900

\* a variant that keeps the host's month 1..12 where tm_mon is 0..11
system_time_to_tm_month1(sys, tm) ==
    With(AsU16(sys.wMonth), LAMBDA mon :
    With(AsU16(sys.wYear - 1900), LAMBDA year :
    [tm EXCEPT !.tm_sec = sys.wSecond, !.tm_min = sys.wMinute,
               !.tm_hour = sys.wHour, !.tm_mday = sys.wDay,
               !.tm_wday = sys.wDayOfWeek, !.tm_mon = mon, !.tm_year = year,
               !.tm_yday = yday(year, mon + 1, sys.wDay)]))

system_time_to_tm(sys, tm) ==
    With(AsU16(sys.wMonth - 1), LAMBDA mon :
    With(AsU16(sys.wYear - 1900), LAMBDA year :
    [tm EXCEPT !.tm_sec = sys.wSecond, !.tm_min = sys.wMinute,
               !.tm_hour = sys.wHour, !.tm_mday = sys.wDay,
               !.tm_wday = sys.wDayOfWeek, !.tm_mon = mon, !.tm_year = year,
               !.tm_yday = yday(year, mon + 1, sys.wDay)]))

\* the call! macro's message for a host call that returned 0
CallFailed(name) == name \o " failed"

Overflow == "arithmetic overflow"

\* SystemTimeToFileTime into a zeroed FILETIME, its return value not looked at
system_time_to_file_time(sys, fail) ==
    IF fail = "system_time_to_file_time" THEN ZeroFileTime
    ELSE HostSystemTimeToFileTime(sys, ZeroFileTime).ft

\* [panic, tm]: panic is the panic message, "" when the function returns.
\* checked: the build traps integer overflow.  fail: the host call that fails.
time_to_local_tm(sec, tm, tz, fail, checked) ==
    With(time_to_file_time(sec), LAMBDA ft :
    With(IF fail = "FileTimeToSystemTime" THEN [ok |-> FALSE, st |-> ZeroSystemTime]
         ELSE HostFileTimeToSystemTime(ft), LAMBDA utc :
    With(IF fail = "SystemTimeToTzSpecificLocalTime"
         THEN [ok |-> FALSE, st |-> ZeroSystemTime]
         ELSE HostSystemTimeToTzSpecificLocalTime(tz, utc.st), LAMBDA local :
    With(system_time_to_tm(local.st, tm), LAMBDA tm1 :
    With(system_time_to_file_time(local.st, fail), LAMBDA localft :
    With(BigSub(file_time_to_unix_seconds(localft), sec), LAMBDA diff :
    With(IF fail = "GetTimeZoneInformation" THEN ZeroTzInfo ELSE tz, LAMBDA tzinfo :
    With(AsI32(diff), LAMBDA utcoff :
    IF checked /\ time_to_file_time_overflows(sec)
    THEN [panic |-> Overflow, tm |-> tm]
    ELSE IF ~utc.ok
    THEN [panic |-> CallFailed("FileTimeToSystemTime"), tm |-> tm]
    ELSE IF ~local.ok
    THEN [panic |-> CallFailed("SystemTimeToTzSpecificLocalTime"), tm |-> tm]
    ELSE IF checked /\ system_time_to_tm_overflows(local.st)
    THEN [panic |-> Overflow, tm |-> tm]
    ELSE IF checked /\ (file_time_to_unix_seconds_overflows(localft) \/ ~FitsI64(diff))
    THEN [panic |-> Overflow, tm |-> tm1]
    ELSE [panic |-> "",
          tm |-> [tm1 EXCEPT !.tm_utcoff = utcoff,
                             !.tm_isdst = IF utcoff = -60 * (tzinfo.Bias + tzinfo.StandardBias)
                                          THEN 0 ELSE 1]]))))))))

\* Timespec::local
Timespec_local(spec, tz, fail, checked) ==
    With(time_to_local_tm(spec.sec, ZeroTm, tz, fail, checked), LAMBDA r :
    [panic |-> r.panic, tm |-> [r.tm EXCEPT !.tm_nsec = spec.nsec]])

\* [panic, sec]
utc_tm_to_time(tm, fail, checked) ==
    With(tm_to_system_time(tm), LAMBDA sys_time :
    With(IF fail = "utc_tm_to_time" THEN [ok |-> FALSE, ft |-> ZeroFileTime]
         ELSE HostSystemTimeToFileTime(sys_time, ZeroFileTime), LAMBDA r :
    IF ~r.ok THEN [panic |-> CallFailed("SystemTimeToFileTime"), sec |-> BigOfInt(0)]
    ELSE IF checked /\ file_time_to_unix_seconds_overflows(r.ft)
    THEN [panic |-> Overflow, sec |-> BigOfInt(0)]
    ELSE [panic |-> "", sec |-> file_time_to_unix_seconds(r.ft)]))

\* [panic, sec]; pick is the host's choice for a repeated or skipped reading
local_tm_to_time(tm, tz, fail, pick, checked) ==
    With(tm_to_system_time(tm), LAMBDA sys_time :
    With(IF fail = "TzSpecificLocalTimeToSystemTime"
         THEN [ok |-> FALSE, st |-> ZeroSystemTime]
         ELSE HostTzSpecificLocalTimeToSystemTime(tz, sys_time, pick), LAMBDA utc :
    With(IF fail = "local_tm_to_time" THEN [ok |-> FALSE, ft |-> ZeroFileTime]
         ELSE HostSystemTimeToFileTime(utc.st, ZeroFileTime), LAMBDA r :
    IF ~utc.ok
    THEN [panic |-> CallFailed("TzSpecificLocalTimeToSystemTime"), sec |-> BigOfInt(0)]
    ELSE IF ~r.ok
    THEN [panic |-> CallFailed("SystemTimeToFileTime"), sec |-> BigOfInt(0)]
    ELSE IF checked /\ file_time_to_unix_seconds_overflows(r.ft)
    THEN [panic |-> Overflow, sec |-> BigOfInt(0)]
    ELSE [panic |-> "", sec |-> file_time_to_unix_seconds(r.ft)])))

(***************************************************************************)
(* The library's value types, as far as windows.rs uses them.  An argument *)
(* cast from a negative i32 with `as u32` is 2^31 or more, so out of range.*)
(***************************************************************************)
NaiveDate_from_ymd_opt(year, month, day) ==
    IF year >= -262144 /\ year <= 262143 /\ ValidYmd(year, month, day)
    THEN [some |-> TRUE, days |-> DaysFromCivil(year, month, day)]
    ELSE [some |-> FALSE, days |-> 0]

NaiveTime_from_hms_nano_opt(hour, min, sec, nano) ==
    IF /\ hour >= 0 /\ hour < 24 /\ min >= 0 /\ min < 60 /\ sec >= 0 /\ sec < 60
       /\ nano >= 0 /\ nano < 2000000000
    THEN [some |-> TRUE, secs |-> hour * 3600 + min * 60 + sec, frac |-> nano]
    ELSE [some |-> FALSE, secs |-> 0, frac |-> 0]

FixedOffset_east_opt(secs) ==
    [some |-> secs > -86400 /\ secs < 86400, local_minus_utc |-> secs]

NaiveDateTime(y, mo, d, h, mi, s, ns) ==
    [year |-> y, month |-> mo, day |-> d, hour |-> h, minute |-> mi, second |-> s,
     nanosecond |-> ns]

\* seconds since the Unix epoch of a calendar reading taken as UTC
TimestampOf(days, secs) == BigAdd(BigMulSmall(BigOfInt(days), 86400), BigOfInt(secs))

(***************************************************************************)
(* The result of a conversion: LocalResult::Single (the broken-down time   *)
(* it was assembled from, its offset and its instant in Unix seconds; the  *)
(* nanosecond is tm.tm_nsec), LocalResult::None, or a panic.               *)
(***************************************************************************)
Outcome(kind, msg, tm, offset, utc) ==
    [kind |-> kind, msg |-> msg, tm |-> tm, offset |-> offset, utc |-> utc]

Panic(msg, tm) == Outcome("Panic", msg, tm, 0, BigOfInt(0))

UnwrapNone == "called Option::unwrap() on a None value"

\* 1_000_000_000 * n, exactly
Billions(n) == BigMulSmall(BigMulSmall(BigOfInt(n), 1000000), 1000)

\* the i32 arithmetic of the leap second clamp overflows
clamp_overflows(tm) ==
    /\ tm.tm_sec >= 60
    /\ With(Billions(tm.tm_sec - 59), LAMBDA prod :
          \/ ~FitsI32(prod)
          \/ ~FitsI32(BigAdd(BigOfInt(AsI32(prod)), BigOfInt(tm.tm_nsec))))

\* `if tm.tm_sec >= 60 { tm.tm_nsec += (tm.tm_sec - 59) * 1_000_000_000; tm.tm_sec = 59; }`
\* a variant that counts the excess from 60 instead of from 59
clamp_from60(tm) ==
    IF tm.tm_sec >= 60
    THEN [tm EXCEPT !.tm_nsec = AsI32(BigAdd(BigOfInt(AsI32(Billions(tm.tm_sec - 60))),
                                             BigOfInt(tm.tm_nsec))),
                    !.tm_sec = 59]
    ELSE tm

clamp(tm) ==
    IF tm.tm_sec >= 60
    THEN [tm EXCEPT !.tm_nsec = AsI32(BigAdd(BigOfInt(AsI32(Billions(tm.tm_sec - 59))),
                                             BigOfInt(tm.tm_nsec))),
                    !.tm_sec = 59]
    ELSE tm

\* a variant that reports every daylight-time reading as ambiguous
tm_to_datetime_ambiguous(tm0, checked) ==
    With(clamp(tm0), LAMBDA tm :
    With(NaiveDate_from_ymd_opt(tm.tm_year + 1900, tm.tm_mon + 1, tm.tm_mday), LAMBDA date :
    With(NaiveTime_from_hms_nano_opt(tm.tm_hour, tm.tm_min, tm.tm_sec, tm.tm_nsec), LAMBDA time :
    With(FixedOffset_east_opt(tm.tm_utcoff), LAMBDA offset :
    IF checked /\ clamp_overflows(tm0) THEN Panic(Overflow, tm0)
    ELSE IF ~date.some THEN Panic(UnwrapNone, tm)
    ELSE IF ~time.some THEN Outcome("None", "", tm, 0, BigOfInt(0))
    ELSE IF ~offset.some THEN Panic(UnwrapNone, tm)
    ELSE Outcome(IF tm.tm_isdst > 0 THEN "Ambiguous" ELSE "Single", "", tm, offset.local_minus_utc,
                 TimestampOf(date.days, time.secs - offset.local_minus_utc))))))

\* a variant that matches on the date as it does on the time
tm_to_datetime_date_none(tm0, checked) ==
    With(clamp(tm0), LAMBDA tm :
    With(NaiveDate_from_ymd_opt(tm.tm_year + 1900, tm.tm_mon + 1, tm.tm_mday), LAMBDA date :
    With(NaiveTime_from_hms_nano_opt(tm.tm_hour, tm.tm_min, tm.tm_sec, tm.tm_nsec), LAMBDA time :
    With(FixedOffset_east_opt(tm.tm_utcoff), LAMBDA offset :
    IF checked /\ clamp_overflows(tm0) THEN Panic(Overflow, tm0)
    ELSE IF ~date.some THEN Outcome("None", "", tm, 0, BigOfInt(0))
    ELSE IF ~time.some THEN Outcome("None", "", tm, 0, BigOfInt(0))
    ELSE IF ~offset.some THEN Panic(UnwrapNone, tm)
    ELSE Outcome("Single", "", tm, offset.local_minus_utc,
                 TimestampOf(date.days, time.secs - offset.local_minus_utc))))))

tm_to_datetime(tm0, checked) ==
    With(clamp(tm0), LAMBDA tm :
    With(NaiveDate_from_ymd_opt(tm.tm_year + 1900, tm.tm_mon + 1, tm.tm_mday), LAMBDA date :
    With(NaiveTime_from_hms_nano_opt(tm.tm_hour, tm.tm_min, tm.tm_sec, tm.tm_nsec), LAMBDA time :
    With(FixedOffset_east_opt(tm.tm_utcoff), LAMBDA offset :
    IF checked /\ clamp_overflows(tm0) THEN Panic(Overflow, tm0)
    ELSE IF ~date.some THEN Panic(UnwrapNone, tm)
    ELSE IF ~time.some THEN Outcome("None", "", tm, 0, BigOfInt(0))
    ELSE IF ~offset.some THEN Panic(UnwrapNone, tm)
    ELSE Outcome("Single", "", tm, offset.local_minus_utc,
                 TimestampOf(date.days, time.secs - offset.local_minus_utc))))))

naive_to_local(d, local, tz, fail, pick, checked) ==
    With(MkTm(d.second, d.minute, d.hour, d.day, d.month - 1, d.year - 1900,
              0, 0, -1, IF local THEN 1 ELSE 0, 0), LAMBDA tm :
    With(IF local THEN local_tm_to_time(tm, tz, fail, pick, checked)
         ELSE utc_tm_to_time(tm, fail, checked), LAMBDA t :
    IF t.panic # "" THEN Panic(t.panic, tm)
    ELSE With(Timespec_local([sec |-> t.sec, nsec |-> tm.tm_nsec], tz, fail, checked), LAMBDA r :
         IF r.panic # "" THEN Panic(r.panic, r.tm)
         ELSE IF r.tm.tm_nsec # 0 THEN Panic("assertion failed", r.tm)
         ELSE tm_to_datetime([r.tm EXCEPT !.tm_nsec = d.nanosecond], checked))))

\* clock: the reading of SystemTime::now() relative to the Unix epoch
now(clock, tz, fail, checked) ==
    IF clock.sec < 0 THEN Panic("system time before Unix epoch", ZeroTm)
    ELSE With(Timespec_local([sec |-> BigOfInt(clock.sec), nsec |-> clock.nsec],
                             tz, fail, checked), LAMBDA r :
         IF r.panic # "" THEN Panic(r.panic, r.tm)
         ELSE With(tm_to_datetime(r.tm, checked), LAMBDA datetime :
              IF datetime.kind = "None" THEN Panic("invalid time", datetime.tm)
              ELSE datetime))

(***************************************************************************)
(* Inputs.                                                                 *)
(***************************************************************************)
\* wall-clock readings are taken every half hour from an anchor, this many steps
MaxHalfHours == 3

\* the largest tm_sec of a hand-made broken-down time
MaxTmSec == 62

\* Unix times are taken this far on both sides of an anchor of the bridge
BridgeSpan == 2

NaivePlus(a, secs, second, nano) ==
    With(Lin(DaysFromCivil(a.year, a.month, a.day), a.hour * 3600 + a.minute * 60 + secs),
         LAMBDA l :
    With(CivilFromDays(l.day), LAMBDA c :
    NaiveDateTime(c.year, c.month, c.day, l.sod \div 3600, (l.sod \div 60) % 60,
                  second, nano)))

\* just before: an ordinary summer day, the two transitions of the eastern and
\* of the berlin zone, the last day of a leap year, a year before 1900
NaiveAnchors ==
    {NaiveDateTime(2023, 6, 1, 11, 0, 0, 0),   NaiveDateTime(2023, 3, 12, 1, 0, 0, 0),
     NaiveDateTime(2023, 11, 5, 0, 30, 0, 0),  NaiveDateTime(2023, 3, 26, 1, 0, 0, 0),
     NaiveDateTime(2023, 10, 29, 1, 30, 0, 0), NaiveDateTime(2024, 12, 31, 22, 30, 0, 0),
     NaiveDateTime(1899, 12, 31, 12, 0, 0, 0)}

\* second and nanosecond; a nanosecond of 10^9 or more is a leap second
SubSeconds == {<<0, 0>>, <<59, 999999999>>, <<59, 1500000000>>}

NaiveInputs ==
    {NaivePlus(a, k * 1800, ss[1], ss[2]) :
        a \in NaiveAnchors, k \in 0..MaxHalfHours, ss \in SubSeconds}

\* the reading host failures are tried on
ProbeInput == NaiveDateTime(2023, 6, 1, 12, 0, 0, 0)

\* Unix seconds: the epoch, 2023-06-01T17:00:00Z, and half an hour before the
\* transitions (eastern, berlin) and before the end of 2024
ClockAnchors ==
    {0, 1685638800, 1678604400 - 1800, 1699164000 - 1800, 1679792400 - 1800,
     1698541200 - 1800, 1735689600 - 1800}

ClockReadings ==
    {[sec |-> a + k * 1800 + s, nsec |-> ns] :
        a \in ClockAnchors, k \in 0..MaxHalfHours, s \in {0, 1799}, ns \in {0, 999999999}}
    \cup {[sec |-> -1, nsec |-> 0]}

\* hand-made broken-down times for tm_to_datetime
TmInputs ==
    {MkTm(sec, 30, hour, ymd[3], ymd[2] - 1, ymd[1] - 1900, 0, 0, 0, off, nsec) :
        sec \in {0, 59} \cup (60..MaxTmSec),
        hour \in {12, 24},
        ymd \in {<<2023, 2, 28>>, <<2023, 2, 30>>, <<2024, 2, 29>>},
        off \in {0, -18000, 86400},
        nsec \in {0, 1, 147483647, 147483648, 999999999, 1147483647, 1147483648}}

\* Unix times for the bridge: around the epoch, around a present-day time and
\* around the ends of what i64 arithmetic can take
BridgeAnchors ==
    {BigOfInt(0), BigOfInt(1685638800),
     Big(FALSE, DecNat(<<910, 692, 730, 85>>)),
     Big(TRUE, DecNat(<<922, 337, 203, 685>>)),
     Big(TRUE, DecNat(<<933, 981, 677, 285>>))}

BridgeInputs ==
    {BigAdd(a, BigOfInt(k)) : a \in BridgeAnchors, k \in (-BridgeSpan)..BridgeSpan}

(***************************************************************************)
(* The state machine: the host's zone setting, the build, and the last     *)
(* call made (op, its arguments arg, its outcome out).                     *)
(***************************************************************************)
VARIABLES zone, build, op, arg, out

vars == <<zone, build, op, arg, out>>

Idle == Outcome("Idle", "", ZeroTm, 0, BigOfInt(0))

Init ==
    /\ zone \in ZoneNames
    /\ build \in {"debug", "release"}
    /\ op = "idle"
    /\ arg = [none |-> TRUE]
    /\ out = Idle

Checked == build = "debug"

\* Local::now()
Now ==
    /\ op = "idle"
    /\ \E clock \in ClockReadings :
       \E fail \in {"none", "FileTimeToSystemTime", "SystemTimeToTzSpecificLocalTime",
                    "system_time_to_file_time", "GetTimeZoneInformation"} :
          /\ fail = "none" \/ clock.sec = 1685638800
          /\ op' = "now"
          /\ arg' = [clock |-> clock, fail |-> fail]
          /\ out' = now(clock, Zones[zone], fail, Checked)
    /\ UNCHANGED <<zone, build>>

\* Local.from_local_datetime (local) and Local.from_utc_datetime (not local)
NaiveToLocal ==
    /\ op = "idle"
    /\ \E d \in NaiveInputs, local \in BOOLEAN, pick \in {"standard", "daylight"} :
       \E fail \in HostCalls \cup {"none"} :
          /\ fail = "none" \/ d = ProbeInput
          /\ op' = "naive_to_local"
          /\ arg' = [d |-> d, local |-> local, pick |-> pick, fail |-> fail]
          /\ out' = naive_to_local(d, local, Zones[zone], fail, pick, Checked)
    /\ UNCHANGED <<zone, build>>

\* the result assembler on a broken-down time of any origin
TmToDatetime ==
    /\ op = "idle"
    /\ \E tm \in TmInputs :
          /\ op' = "tm_to_datetime"
          /\ arg' = [tm |-> tm]
          /\ out' = tm_to_datetime(tm, Checked)
    /\ UNCHANGED <<zone, build>>

\* Unix seconds to a FILETIME and back
Bridge ==
    /\ op = "idle"
    /\ \E sec \in BridgeInputs :
          /\ op' = "bridge"
          /\ arg' = [sec |-> sec]
          /\ out' = LET ft == time_to_file_time(sec)
                    IN  IF Checked /\ (\/ time_to_file_time_overflows(sec)
                                       \/ file_time_to_unix_seconds_overflows(ft))
                        THEN [kind |-> "Panic", msg |-> Overflow, ft |-> ft,
                              sec |-> BigOfInt(0)]
                        ELSE [kind |-> "Value", msg |-> "", ft |-> ft,
                              sec |-> file_time_to_unix_seconds(ft)]
    /\ UNCHANGED <<zone, build>>

\* the user or an administrator changes the machine's time zone
ZoneChange ==
    /\ op = "idle"
    /\ zone' \in ZoneNames \ {zone}
    /\ UNCHANGED <<build, op, arg, out>>

\* the caller has its result; the next call starts afresh
Return ==
    /\ op # "idle"
    /\ op' = "idle"
    /\ arg' = [none |-> TRUE]
    /\ out' = Idle
    /\ UNCHANGED <<zone, build>>

Next == Now \/ NaiveToLocal \/ TmToDatetime \/ Bridge \/ ZoneChange \/ Return

Spec == Init /\ [][Next]_vars

(***************************************************************************)
(* Vocabulary of the properties.                                           *)
(***************************************************************************)
Tz == Zones[zone]

\* the wall-clock reading of a naive value, inside the host
NaiveLin(d) ==
    Lin(DaysFromCivil(d.year, d.month, d.day), d.hour * 3600 + d.minute * 60 + d.second)

\* a count of Unix seconds as a day and a second of the day
LinOfBig(x) ==
    With(NatDivMod(x.mag, 86400), LAMBDA dm :
    IF x.neg THEN Lin(-NatToInt(dm.q), -dm.r) ELSE Lin(NatToInt(dm.q), dm.r))

\* the reading is skipped (spring forward) / repeated (fall back) in the zone
InGap(tz, d) == MatchingOffsets(tz, NaiveLin(d)) = {}

InOverlap(tz, d) == Cardinality(MatchingOffsets(tz, NaiveLin(d))) = 2

\* a broken-down time shows the calendar fields of a naive value
SameFields(tm, d) ==
    /\ tm.tm_year + 1900 = d.year /\ tm.tm_mon + 1 = d.month /\ tm.tm_mday = d.day
    /\ tm.tm_hour = d.hour /\ tm.tm_min = d.minute /\ tm.tm_sec = d.second
    /\ tm.tm_nsec = d.nanosecond

\* a call of naive_to_local(V, local = true) in which every host call succeeds
LocalCall == op = "naive_to_local" /\ arg.local /\ arg.fail = "none"

TmDateValid(tm) == ValidYmd(tm.tm_year + 1900, tm.tm_mon + 1, tm.tm_mday)

\* the host operation behind a place of call
HostOpOf(site) ==
    IF site \in {"system_time_to_file_time", "utc_tm_to_time", "local_tm_to_time"}
    THEN "SystemTimeToFileTime" ELSE site

\* the failing call is one the conversion reaches, and one that reports
\* failure by returning 0
FailureReached ==
    /\ op \in {"now", "naive_to_local"}
    /\ arg.fail \notin {"none", "GetTimeZoneInformation"}
    /\ op = "naive_to_local" =>
          /\ arg.fail = "utc_tm_to_time" => ~arg.local
          /\ arg.fail \in {"TzSpecificLocalTimeToSystemTime", "local_tm_to_time"} => arg.local

(***************************************************************************)
(* Properties.                                                             *)
(***************************************************************************)
\* C1: naive_to_local(V, local = true) returns an instant which, projected
\* back through Timespec::local under the same zone state, shows exactly V's
\* year, month, day, hour, minute, second and nanosecond.
C1_RoundTrip ==
    LocalCall =>
        /\ out.kind = "Single"
        /\ LET back == Timespec_local([sec |-> out.utc, nsec |-> out.tm.tm_nsec],
                                      Tz, "none", Checked)
           IN  back.panic = "" /\ SameFields(back.tm, arg.d)

\* C2: when the zone is o seconds east of UTC at the resolved moment,
\* naive_to_local(V, local = true) returns Single with offset o and the instant
\* V - o; five hours behind UTC, 2023-06-01T12:00:00 resolves to
\* 2023-06-01T17:00:00Z with offset -18000.
C2_OffsetSign ==
    LocalCall =>
        /\ out.kind = "Single"
        /\ out.offset = OffsetAt(Tz, LinOfBig(out.utc))
        /\ out.utc = TimestampOf(NaiveLin(arg.d).day, NaiveLin(arg.d).sod - out.offset)
        /\ (zone = "bogota" /\ arg.d = ProbeInput) =>
              out.utc = BigOfInt(1685638800) /\ out.offset = -18000

\* C3: a wall-clock reading in the hour skipped at spring forward makes
\* naive_to_local(V, local = true) return LocalResult::None.
C3_GapIsNone == (LocalCall /\ InGap(Tz, arg.d)) => out.kind = "None"

\* C4: now, naive_to_local and tm_to_datetime end in Single or None (or a
\* panic), never in Ambiguous; a reading in the hour repeated at fall back
\* gets a single instant.
C4_NeverAmbiguous ==
    op \in {"now", "naive_to_local", "tm_to_datetime"} =>
        /\ out.kind \in {"Single", "None", "Panic"}
        /\ (LocalCall /\ InOverlap(Tz, arg.d)) => out.kind = "Single"

C4_Witness ==
    /\ LocalCall /\ InOverlap(Tz, arg.d) /\ out.kind = "Single"
    /\ SameFields(out.tm, arg.d)

\* C5: for a clock at or after the Unix epoch, with every host call
\* succeeding, now() gets Single from tm_to_datetime: its expect never fires.
C5_NowIsSingle ==
    (op = "now" /\ arg.fail = "none" /\ arg.clock.sec >= 0) => out.kind = "Single"

C5_Witness ==
    /\ op = "now" /\ arg.fail = "none" /\ arg.clock.sec >= 0 /\ out.kind = "Single"
    /\ out.tm.tm_isdst = 1 /\ out.tm.tm_mon = 10 /\ out.tm.tm_nsec = 999999999

\* the nanosecond field the clamp is meant to leave; does it fit an i32
ClampedNsec(tm) == BigAdd(BigOfInt(tm.tm_nsec), Billions(tm.tm_sec - 59))

\* C6 as stated: for every broken-down time with tm_sec >= 60 the clamp adds
\* (tm_sec - 59) * 10^9 to tm_nsec and sets tm_sec to 59 without overflow of
\* the i32 arithmetic; with tm_sec < 60 nothing changes; afterwards second <= 59.
C6_ClampAlways ==
    op = "tm_to_datetime" =>
        IF arg.tm.tm_sec >= 60
        THEN /\ ~clamp_overflows(arg.tm)
             /\ out.tm.tm_sec = 59
             /\ out.tm.tm_nsec = BigToInt(ClampedNsec(arg.tm))
        ELSE out.tm = arg.tm

\* C6 as amended: the same for every broken-down time with tm_sec >= 60 whose
\* tm_nsec + (tm_sec - 59) * 10^9 fits an i32; beyond that the arithmetic
\* overflows (a panic where overflow is trapped, a wrong tm_nsec elsewhere).
\* Whenever the step completes, second <= 59.
C6_ClampInRange ==
    op = "tm_to_datetime" =>
        /\ IF arg.tm.tm_sec >= 60
           THEN IF FitsI32(ClampedNsec(arg.tm))
                THEN /\ ~clamp_overflows(arg.tm)
                     /\ out.tm.tm_sec = 59
                     /\ out.tm.tm_nsec = BigToInt(ClampedNsec(arg.tm))
                ELSE /\ clamp_overflows(arg.tm)
                     /\ Checked => out.kind = "Panic" /\ out.msg = Overflow
           ELSE out.tm = arg.tm
        /\ out.msg # Overflow => out.tm.tm_sec <= 59

C6_Witness ==
    /\ op = "tm_to_datetime" /\ arg.tm.tm_sec = 60 /\ arg.tm.tm_nsec = 0
    /\ out.kind = "Single" /\ out.tm.tm_sec = 59 /\ out.tm.tm_nsec = 1000000000

\* C7 as stated: a broken-down time whose year, month and day are no real date
\* (2023-02-30) makes the result assembler return LocalResult::None.
C7_InvalidDateNone ==
    (op = "tm_to_datetime" /\ ~TmDateValid(arg.tm)) => out.kind = "None"

\* C7 as amended: such a broken-down time makes the result assembler panic, in
\* the unwrap of NaiveDate::from_ymd_opt (or before it, in the clamp, when that
\* overflows); it returns neither Single nor None.
C7_InvalidDatePanics ==
    (op = "tm_to_datetime" /\ ~TmDateValid(arg.tm)) =>
        /\ out.kind = "Panic"
        /\ out.msg = UnwrapNone \/ (Checked /\ clamp_overflows(arg.tm))

C7_Witness ==
    /\ op = "tm_to_datetime"
    /\ arg.tm.tm_year = 123 /\ arg.tm.tm_mon = 1 /\ arg.tm.tm_mday = 30
    /\ arg.tm.tm_hour = 12 /\ arg.tm.tm_sec = 0
    /\ out.kind = "Panic" /\ out.msg = UnwrapNone

\* the exact values of sec * 10^7 and of sec * 10^7 + 116_444_736_000_000_000
TickProduct(sec) == BigMulSmall(sec, 10000000)

TickSum(sec) == BigAdd(TickProduct(sec), Big(FALSE, DecNat(<<116, 444, 736, 0, 0, 0>>)))

BridgeExact ==
    /\ out.kind = "Value"
    /\ out.sec = arg.sec
    /\ out.ft = [dwLowDateTime  |-> NatFix(Bits64(TickSum(arg.sec)), 8),
                 dwHighDateTime |-> SubSeq(Bits64(TickSum(arg.sec)), 9, 16)]

\* C8 as stated: for every sec whose sec * 10^7 + 116_444_736_000_000_000 fits
\* an i64, file_time_to_unix_seconds(time_to_file_time(sec)) = sec, the halves
\* of the FILETIME holding exactly that tick count.
C8_BridgeSumFits == (op = "bridge" /\ FitsI64(TickSum(arg.sec))) => BridgeExact

\* C8 as amended: the same for every sec for which both sec * 10^7 and
\* sec * 10^7 + 116_444_736_000_000_000 fit an i64.
C8_BridgeProductFits ==
    (op = "bridge" /\ FitsI64(TickProduct(arg.sec)) /\ FitsI64(TickSum(arg.sec))) =>
        BridgeExact

C8_Witness ==
    /\ op = "bridge" /\ arg.sec = BigOfInt(0) /\ out.sec = BigOfInt(0)
    /\ NatNorm(out.ft.dwLowDateTime \o out.ft.dwHighDateTime)
          = DecNat(<<116, 444, 736, 0, 0, 0>>)

\* C9: the tm_yday that system_time_to_tm fills is the number of days since
\* January 1 of the year, and lies in 0..365.
C9_YdayIsDayOfYear ==
    (op \in {"now", "naive_to_local"} /\ out.kind = "Single" /\ out.tm.tm_year < 30000) =>
        /\ out.tm.tm_yday \in 0..365
        /\ out.tm.tm_yday =
              DaysFromCivil(out.tm.tm_year + 1900, out.tm.tm_mon + 1, out.tm.tm_mday)
              - DaysFromCivil(out.tm.tm_year + 1900, 1, 1)

\* C10: when a host call of a conversion returns 0, the process panics with a
\* message that names the failing host operation.
C10_HostFailureFatal ==
    FailureReached => out.kind = "Panic" /\ out.msg = CallFailed(HostOpOf(arg.fail))

====
